---- MODULE Spec2Model ----
(***************************************************************************)
(* A model of pyxshell/common.py: the library of pipeline stages.          *)
(*                                                                         *)
(* Every stage body is a Python 2 generator (or, for cat, a function that  *)
(* returns a file iterator).  A generator is modelled by its position      *)
(* (gen), its local variables and the number of items it has taken from    *)
(* its upstream (idx).  One consumer pull, next(stream), is one action:    *)
(* the body runs from where it was suspended up to its next yield, its     *)
(* return, or the exception that leaves it.                                *)
(***************************************************************************)
EXTENDS Integers, Sequences, FiniteSets, TLC

VARIABLES
    stage,      \* the stage function the stream was made by
    args,       \* its fixed parameters (size, func, pattern_src, filepatterns)
    stdin,      \* the items the upstream iterator holds, in order
    idx,        \* how many of them have been pulled from the upstream
    gen,        \* generator state: "created", "suspended" or "finished"
    count,      \* head: the local count
    data,       \* tail: the slice being iterated once the upstream is expanded
    di,         \* tail, expand: how many items of the local list were yielded
    out,        \* the items handed to the consumer so far, in order
    results,    \* the outcome of every pull so far: "item", "StopIteration" or an exception
    built,      \* how many steps of building the stream's expression have run
    handle,     \* the file, connection or process of a source: "unopened", "open", "closed"
    consumer,   \* "pulling"; "abandoned" once it has dropped the stream; "collected"
                \* once the abandoned stream has been torn down
    pc,         \* sh: where its running body is: "write", "read" or "wait"
    child,      \* sh: the process: "none", "running", "flushing", "exited", "reaped"
    inPipe,     \* sh: the lines in the pipe to the process's input
    outPipe,    \* sh: the lines in the pipe from the process's output
    inClosed,   \* sh: pipe.stdin has been closed
    held,       \* sh: the lines the process has read or made and not yet written
    produced,   \* sh: every line the process has written to its output
    pending     \* sh: the exception in flight while finally runs, then the one raised

srcVars == <<built, handle, consumer>>

shVars == <<pc, child, inPipe, outPipe, inClosed, held, produced, pending>>

vars == <<stage, args, stdin, idx, gen, count, data, di, out, results, srcVars, shVars>>

----------------------------------------------------------------------------
(* Bounds *)

\* longest upstream sequence
MaxLen == 3
\* largest size given to head and tail
MaxSize == 4
\* pulls the consumer still makes after a pull that delivered no item
MaxAfter == 2
\* most patterns given to expand
MaxPatterns == 2
\* lines an operating-system pipe holds
PipeCap == 1
\* most copies of one stage chained one after another
MaxDepth == 2
\* most items taken from an upstream that never ends
MaxPulled == 6
\* longest upstream sequence given to sh
MaxShLen == 4

----------------------------------------------------------------------------
(* Items *)

\* size=None, the default of head and tail
None == -1

\* A str item is the tuple of its characters; the None object is an item
\* that is not a str.
NoneItem == <<"<None>">>

IsStr(item) == item # NoneItem

Lines == { <<"c", "a">>, <<"b">>, <<>> }

Items == Lines \cup {NoneItem}

RECURSIVE SeqsUpTo(_, _)
SeqsUpTo(S, n) ==
    IF n = 0 THEN { <<>> }
    ELSE LET shorter == SeqsUpTo(S, n - 1)
         IN  shorter \cup { Append(s, x) : s \in { t \in shorter : Len(t) = n - 1 }, x \in S }

Sizes == {None} \cup (0 .. MaxSize)

\* the exceptions a pull can deliver
Exceptions ==
    {"TypeError", "IndexError", "re.error", "URLError", "socket.error",
     "UpstreamError", "CalledProcessError"}

IsException(r) == r \in Exceptions

\* the variables of sh when no sh stage is there
NoProcess ==
    /\ pc = "none"
    /\ child = "none"
    /\ inPipe = <<>>
    /\ outPipe = <<>>
    /\ inClosed = FALSE
    /\ held = <<>>
    /\ produced = <<>>
    /\ pending = [type |-> "none"]

\* pulls made once the stream has stopped delivering items
After == Cardinality({ i \in 1 .. Len(results) : results[i] # "item" })

CanPull == After <= MaxAfter

----------------------------------------------------------------------------
(* Python helpers *)

\* seq[start:] with Python's treatment of negative and out-of-range starts
SliceFrom(seq, start) ==
    LET n == Len(seq)
        a == IF start < 0
             THEN (IF start + n < 0 THEN 0 ELSE start + n)
             ELSE (IF start > n THEN n ELSE start)
    IN  SubSeq(seq, a + 1, n)

\* the outcome of a pull: the generator's new state, what the pull returned
Yield(item) ==
    /\ gen' = "suspended"
    /\ out' = Append(out, item)
    /\ results' = Append(results, "item")

\* the body returns, or raises StopIteration: the generator is finished and
\* the pull reports the end of the stream
ReturnAsError ==
    /\ gen' = "finished"
    /\ out' = out
    /\ results' = Append(results, "RuntimeError")

Return ==
    /\ gen' = "finished"
    /\ out' = out
    /\ results' = Append(results, "StopIteration")

\* an exception leaves the body: the generator is finished and the pull
\* raises the exception
RaiseSuspended(exc) ==
    /\ gen' = "suspended"
    /\ out' = out
    /\ results' = Append(results, exc)

Raise(exc) ==
    /\ gen' = "finished"
    /\ out' = out
    /\ results' = Append(results, exc)

\* next() on a generator that has finished raises StopIteration
PullFinished ==
    /\ gen = "finished"
    /\ consumer = "pulling"
    /\ CanPull
    /\ results' = Append(results, "StopIteration")
    /\ UNCHANGED <<stage, args, stdin, idx, gen, count, data, di, out>>
    /\ UNCHANGED shVars
    /\ UNCHANGED srcVars

----------------------------------------------------------------------------
(* head *)

\* The upstream of head is an iterator over the list stdin, or
\* itertools.cycle over it, which never ends unless the list is empty.
HasNext(i) ==
    \/ i < Len(stdin)
    \/ args.upstream = "cycle" /\ Len(stdin) > 0

UpstreamItem(i) == stdin[((i - 1) % Len(stdin)) + 1]

HeadStopsNever(size, n) == FALSE

HeadStopsAfter(size, n) == size # None /\ n > size

HeadStops(size, n) == size # None /\ n >= size

PullHead ==
    /\ stage = "head"
    /\ gen \in {"created", "suspended"}
    /\ CanPull
    /\ args.upstream = "cycle" => idx < MaxPulled
    /\ LET c == IF gen = "created" THEN 0 ELSE count + 1
       IN  /\ count' = c
           /\ IF HasNext(idx)
              THEN /\ idx' = idx + 1
                   /\ IF HeadStops(args.size, c)
                      THEN Return
                      ELSE Yield(UpstreamItem(idx + 1))
              ELSE /\ idx' = idx
                   /\ Return
    /\ UNCHANGED <<stage, args, stdin, data, di>>
    /\ UNCHANGED shVars
    /\ UNCHANGED srcVars

----------------------------------------------------------------------------
(* tail *)

\* where the slice data[len(data)-size:] starts
TailStartFromFront(n, size) == size

TailStart(n, size) == n - size

PullTail ==
    /\ stage = "tail"
    /\ gen \in {"created", "suspended"}
    /\ CanPull
    /\ IF args.size = None
       THEN /\ IF idx < Len(stdin)
               THEN idx' = idx + 1 /\ Yield(stdin[idx + 1])
               ELSE idx' = idx /\ Return
            /\ UNCHANGED <<data, di>>
       ELSE LET d == IF gen = "created"
                     THEN SliceFrom(stdin, TailStart(Len(stdin), args.size))
                     ELSE data
            IN  /\ data' = d
                /\ idx' = IF gen = "created" THEN Len(stdin) ELSE idx
                /\ IF di < Len(d)
                   THEN di' = di + 1 /\ Yield(d[di + 1])
                   ELSE di' = di /\ Return
    /\ UNCHANGED <<stage, args, stdin, count>>
    /\ UNCHANGED shVars
    /\ UNCHANGED srcVars

----------------------------------------------------------------------------
(* map *)

Funcs == {"identity", "first"}

\* lambda x: x never raises; lambda s: s[0] raises on the empty string and on None
FuncRaises(func, item) ==
    IF func = "first"
    THEN (IF ~IsStr(item) THEN "TypeError" ELSE IF item = <<>> THEN "IndexError" ELSE "no")
    ELSE "no"

ApplyFirstWhereItCan(func, item) ==
    IF IsStr(item) /\ item # <<>> THEN <<item[1]>> ELSE item

Apply(func, item) == IF func = "first" THEN <<item[1]>> ELSE item

\* an item taken through n map(func) stages chained one after another:
\* the exception of the first stage whose func raises, else the value
RECURSIVE ThroughMaps(_, _, _)
ThroughMaps(func, item, n) ==
    IF n = 0 THEN [exc |-> "no", val |-> item]
    ELSE IF FuncRaises(func, item) # "no" THEN [exc |-> FuncRaises(func, item), val |-> item]
    ELSE ThroughMaps(func, Apply(func, item), n - 1)

\* A pull on stdin | map(func) | ... | map(func), args.depth stages: each
\* stage pulls the one before it; an exception in one of them leaves them all.
PullMap ==
    /\ stage = "map"
    /\ gen \in {"created", "suspended"}
    /\ CanPull
    /\ IF idx < Len(stdin)
       THEN /\ idx' = idx + 1
            /\ LET r == ThroughMaps(args.func, stdin[idx + 1], args.depth)
               IN  IF r.exc # "no" THEN Raise(r.exc) ELSE Yield(r.val)
       ELSE /\ idx' = idx
            /\ Return
    /\ UNCHANGED <<stage, args, stdin, count, data, di>>
    /\ UNCHANGED shVars
    /\ UNCHANGED srcVars

----------------------------------------------------------------------------
(* grep *)

\* The regular expressions of the model: a literal, optionally anchored at
\* the start with ^; a pattern holding an unbalanced ( does not compile.
Patterns == { <<"^", "c">>, <<"a">>, <<"b">>, <<"(">> }

Compiles(pattern_src) == \A i \in 1 .. Len(pattern_src) : pattern_src[i] # "("

Compile(pattern_src) ==
    IF Len(pattern_src) > 0 /\ pattern_src[1] = "^"
    THEN [anchor |-> TRUE, lit |-> Tail(pattern_src)]
    ELSE [anchor |-> FALSE, lit |-> pattern_src]

\* where pattern.search(line) finds its match: the leftmost start, -1 if none
MatchStart(pattern, line) ==
    LET n == Len(pattern.lit)
        starts == { s \in 0 .. (Len(line) - n) :
                      /\ pattern.anchor => s = 0
                      /\ SubSeq(line, s + 1, s + n) = pattern.lit }
    IN  IF starts = {} THEN -1 ELSE CHOOSE s \in starts : \A t \in starts : s <= t

SearchAtStart(pattern, line) == MatchStart(pattern, line) = 0

Search(pattern, line) == MatchStart(pattern, line) # -1

\* the for loop of grep, from the i-th upstream item on, up to its yield,
\* the end of the upstream or the exception of search on a non-string
RECURSIVE GrepScan(_, _, _)
GrepScan(pattern, items, i) ==
    IF i >= Len(items) THEN [idx |-> Len(items), res |-> "StopIteration"]
    ELSE IF ~IsStr(items[i + 1]) THEN [idx |-> i + 1, res |-> "TypeError"]
    ELSE IF Search(pattern, items[i + 1]) THEN [idx |-> i + 1, res |-> "item"]
    ELSE GrepScan(pattern, items, i + 1)

PullGrep ==
    /\ stage = "grep"
    /\ gen \in {"created", "suspended"}
    /\ CanPull
    /\ IF ~Compiles(args.pattern_src)
       THEN idx' = idx /\ Raise("re.error")
       ELSE LET r == GrepScan(Compile(args.pattern_src), stdin, idx)
            IN  /\ idx' = r.idx
                /\ IF r.res = "item" THEN Yield(stdin[r.idx])
                   ELSE IF r.res = "StopIteration" THEN Return
                   ELSE Raise(r.res)
    /\ UNCHANGED <<stage, args, stdin, count, data, di>>
    /\ UNCHANGED shVars
    /\ UNCHANGED srcVars

----------------------------------------------------------------------------
(* expand, dir_file *)

\* A path is the tuple of its components below the root.  The file system:
\* /r holds a.py, b.txt and the directory s; /r/s holds c.py.
Files(dir) ==
    IF dir = <<"r">> THEN <<"a.py", "b.txt">>
    ELSE IF dir = <<"r", "s">> THEN <<"c.py">>
    ELSE <<>>

\* os.walk(top): top and the directories below it, top-down, each with its files
Walk(top) ==
    IF top = <<"r">> THEN << <<"r">>, <<"r", "s">> >>
    ELSE IF top = <<"r", "s">> THEN << <<"r", "s">> >>
    ELSE <<>>

Extension(filename) ==
    IF filename \in {"a.py", "c.py"} THEN "py" ELSE "txt"

\* fnmatch.fnmatch for the globs of the model: *, *.py and a literal name
Fnmatch(filename, filepattern) ==
    IF filepattern = "*" THEN TRUE
    ELSE IF filepattern = "*.py" THEN Extension(filename) = "py"
    ELSE filename = filepattern

FilePatterns == { <<"r", "*.py">>, <<"r", "s", "*">>, <<"r", "b.txt">>, <<"q", "*">> }

\* dir_file: (dirname, basename) of each absolute path
DirFile(path) == [base_dir |-> SubSeq(path, 1, Len(path) - 1), filepattern |-> path[Len(path)]]

RECURSIVE Flatten(_)
Flatten(seqs) == IF seqs = <<>> THEN <<>> ELSE Head(seqs) \o Flatten(Tail(seqs))

\* the item expand yields first when it is given no pattern: the generator
\* object (i for i in [])
EmptyGenerator == <<"<generator>">>

ExpandOne(path) ==
    LET df == DirFile(path)
        dirs == Walk(df.base_dir)
    IN  Flatten([ k \in 1 .. Len(dirs) |->
            LET matching == SelectSeq(Files(dirs[k]), LAMBDA f : Fnmatch(f, df.filepattern))
            IN  [ j \in 1 .. Len(matching) |-> Append(dirs[k], matching[j]) ] ])

\* everything the body of expand yields, in order
ExpandYields(filepatterns) ==
    (IF Len(filepatterns) = 0 THEN <<EmptyGenerator>> ELSE <<>>)
    \o Flatten([ k \in 1 .. Len(filepatterns) |-> ExpandOne(filepatterns[k]) ])

PullExpand ==
    /\ stage = "expand"
    /\ gen \in {"created", "suspended"}
    /\ CanPull
    /\ LET ys == ExpandYields(args.filepatterns)
       IN  IF di < Len(ys)
           THEN di' = di + 1 /\ Yield(ys[di + 1])
           ELSE di' = di /\ Return
    /\ UNCHANGED <<stage, args, stdin, idx, count, data>>
    /\ UNCHANGED shVars
    /\ UNCHANGED srcVars

----------------------------------------------------------------------------
(* sed *)

\* A replacement template is a tuple of characters and of the group
\* reference \g<0>, which stands for the text matched.
WholeMatch == "\\g<0>"

Replacements == { <<"f", "u">>, <<>>, <<WholeMatch, "x">> }

SedLines == { <<"c", "a">>, <<"a", "b", "a">>, <<"b">> }

\* match.expand(replacement)
RECURSIVE Expand(_, _)
Expand(replacement, matched) ==
    IF replacement = <<>> THEN <<>>
    ELSE (IF Head(replacement) = WholeMatch THEN matched ELSE <<Head(replacement)>>)
         \o Expand(Tail(replacement), matched)

\* line[:match.start()] + match.expand(replacement) + line[match.end():]
SedReplace(pattern, replacement, line) ==
    LET start == MatchStart(pattern, line)
        end == start + Len(pattern.lit)
    IN  SubSeq(line, 1, start)
        \o Expand(replacement, SubSeq(line, start + 1, end))
        \o SubSeq(line, end + 1, Len(line))

\* elif not exclusive
SedPassesAlways(exclusive) == TRUE

SedPasses(exclusive) == ~exclusive

\* the for loop of sed, from the i-th upstream item on, up to its yield, the
\* end of the upstream or the exception of search on a non-string
RECURSIVE SedScan(_, _, _, _)
SedScan(pattern, items, i, exclusive) ==
    IF i >= Len(items) THEN [idx |-> Len(items), res |-> "StopIteration"]
    ELSE IF ~IsStr(items[i + 1]) THEN [idx |-> i + 1, res |-> "TypeError"]
    ELSE IF Search(pattern, items[i + 1]) \/ SedPasses(exclusive)
         THEN [idx |-> i + 1, res |-> "item"]
    ELSE SedScan(pattern, items, i + 1, exclusive)

PullSed ==
    /\ stage = "sed"
    /\ gen \in {"created", "suspended"}
    /\ CanPull
    /\ IF ~Compiles(args.pattern_src)
       THEN idx' = idx /\ Raise("re.error")
       ELSE LET pattern == Compile(args.pattern_src)
                r == SedScan(pattern, stdin, idx, args.exclusive)
            IN  /\ idx' = r.idx
                /\ IF r.res = "item"
                   THEN (IF Search(pattern, stdin[r.idx])
                         THEN Yield(SedReplace(pattern, args.replacement, stdin[r.idx]))
                         ELSE Yield(stdin[r.idx]))
                   ELSE IF r.res = "StopIteration" THEN Return
                   ELSE Raise(r.res)
    /\ UNCHANGED <<stage, args, stdin, count, data, di>>
    /\ UNCHANGED shVars
    /\ UNCHANGED srcVars

InitSed ==
    /\ stage = "sed"
    /\ args \in [pattern_src : Patterns, replacement : Replacements, exclusive : BOOLEAN]
    /\ stdin \in SeqsUpTo(SedLines \cup {NoneItem}, MaxLen)
    /\ idx = 0
    /\ gen = "created"
    /\ count = 0
    /\ data = <<>>
    /\ di = 0
    /\ out = <<>>
    /\ results = <<>>
    /\ built = 1
    /\ handle = "unopened"
    /\ consumer = "pulling"
    /\ NoProcess

----------------------------------------------------------------------------
(* dos2unix, unix2dos *)

CR == "\r"

LF == "\n"

EolLines == { <<"d", "o", "s", CR, LF>>, <<"u", "n", "i", "x", LF>> }

\* line.replace(old, new): every occurrence of old, left to right, without
\* overlap
RECURSIVE Replace(_, _, _)
Replace(line, old, new) ==
    IF Len(line) < Len(old) THEN line
    ELSE IF SubSeq(line, 1, Len(old)) = old
         THEN new \o Replace(SubSeq(line, Len(old) + 1, Len(line)), old, new)
    ELSE <<Head(line)>> \o Replace(Tail(line), old, new)

Dos2unix(line) == Replace(line, <<CR, LF>>, <<LF>>)

Unix2dos(line) == Replace(line, <<LF>>, <<CR, LF>>)

\* a line taken through n stages of the same kind
RECURSIVE ThroughEol(_, _, _)
ThroughEol(name, line, n) ==
    IF n = 0 THEN line
    ELSE ThroughEol(name, IF name = "dos2unix" THEN Dos2unix(line) ELSE Unix2dos(line), n - 1)

\* A pull on stdin | dos2unix() | ... | dos2unix(), args.depth stages
PullDos2unix ==
    /\ stage = "dos2unix"
    /\ gen \in {"created", "suspended"}
    /\ CanPull
    /\ IF idx < Len(stdin)
       THEN idx' = idx + 1 /\ Yield(ThroughEol("dos2unix", stdin[idx + 1], args.depth))
       ELSE idx' = idx /\ Return
    /\ UNCHANGED <<stage, args, stdin, count, data, di>>
    /\ UNCHANGED shVars
    /\ UNCHANGED srcVars

\* A pull on stdin | unix2dos() | ... | unix2dos(), args.depth stages
PullUnix2dos ==
    /\ stage = "unix2dos"
    /\ gen \in {"created", "suspended"}
    /\ CanPull
    /\ IF idx < Len(stdin)
       THEN idx' = idx + 1 /\ Yield(ThroughEol("unix2dos", stdin[idx + 1], args.depth))
       ELSE idx' = idx /\ Return
    /\ UNCHANGED <<stage, args, stdin, count, data, di>>
    /\ UNCHANGED shVars
    /\ UNCHANGED srcVars

InitEol ==
    /\ stage \in {"dos2unix", "unix2dos"}
    /\ args \in [depth : 1 .. MaxDepth]
    /\ stdin \in SeqsUpTo(EolLines, MaxLen)
    /\ idx = 0
    /\ gen = "created"
    /\ count = 0
    /\ data = <<>>
    /\ di = 0
    /\ out = <<>>
    /\ results = <<>>
    /\ built = 1
    /\ handle = "unopened"
    /\ consumer = "pulling"
    /\ NoProcess

----------------------------------------------------------------------------

InitGen ==
    /\ \/ stage = "head" /\ args \in [size : Sizes, upstream : {"list", "cycle"}]
       \/ stage = "tail" /\ args \in [size : Sizes]
       \/ stage = "map" /\ args \in [func : Funcs, depth : 1 .. MaxDepth]
       \/ stage = "grep" /\ args \in [pattern_src : Patterns]
    /\ stdin \in SeqsUpTo(Items, MaxLen)
    /\ idx = 0
    /\ gen = "created"
    /\ count = 0
    /\ data = <<>>
    /\ di = 0
    /\ out = <<>>
    /\ results = <<>>
    /\ built = 1
    /\ handle = "unopened"
    /\ consumer = "pulling"
    /\ NoProcess

InitExpand ==
    /\ stage = "expand"
    /\ args \in [filepatterns : SeqsUpTo(FilePatterns, MaxPatterns)]
    /\ stdin = <<>>
    /\ idx = 0
    /\ gen = "created"
    /\ count = 0
    /\ data = <<>>
    /\ di = 0
    /\ out = <<>>
    /\ results = <<>>
    /\ built = 1
    /\ handle = "unopened"
    /\ consumer = "pulling"
    /\ NoProcess

NextGen ==
    \/ PullHead
    \/ PullTail
    \/ PullMap
    \/ PullGrep
    \/ PullExpand
    \/ PullSed
    \/ PullDos2unix
    \/ PullUnix2dos
    \/ PullFinished

InitStage == InitGen \/ InitExpand \/ InitSed \/ InitEol

SpecGen == InitStage /\ [][NextGen]_vars

----------------------------------------------------------------------------
(* The stage wrapper: pipe *)

\* Calling a stage function that has all its arguments executes its body
\* and returns the stream the body returns.  The body of a generator
\* function executed this way makes a generator object and runs nothing.
CallBody ==
    /\ built = 0
    /\ built' = 1

----------------------------------------------------------------------------
(* cat, curl: the sources that hold a resource *)

\* the lines of a file or of a response: none of them is empty
SourceLines == { <<"c", "a">>, <<"b">> }

\* cat(path): the body is return iter(open(path)), so the call opens the file
CallCat ==
    /\ stage = "cat"
    /\ CallBody
    /\ handle' = "open"
    /\ UNCHANGED <<stage, args, stdin, idx, gen, count, data, di, out, results, consumer>>
    /\ UNCHANGED shVars

\* next() on the file iterator: the next line, StopIteration at the end of
\* the file; the file stays as it is
PullCat ==
    /\ stage = "cat"
    /\ built = 1
    /\ consumer = "pulling"
    /\ CanPull
    /\ IF idx < Len(stdin)
       THEN /\ idx' = idx + 1
            /\ out' = Append(out, stdin[idx + 1])
            /\ results' = Append(results, "item")
       ELSE /\ idx' = idx
            /\ out' = out
            /\ results' = Append(results, "StopIteration")
    /\ UNCHANGED <<stage, args, stdin, gen, count, data, di, srcVars>>
    /\ UNCHANGED shVars

\* the file object is deallocated once nothing refers to it, which closes it
CollectFile ==
    /\ stage = "cat"
    /\ consumer = "abandoned"
    /\ handle' = "closed"
    /\ consumer' = "collected"
    /\ UNCHANGED <<stage, args, stdin, idx, gen, count, data, di, out, results, built>>
    /\ UNCHANGED shVars

\* curl(url): a generator function; the call makes the generator
CallCurl ==
    /\ stage = "curl"
    /\ CallBody
    /\ UNCHANGED <<stage, args, stdin, idx, gen, count, data, di, out, results, handle, consumer>>
    /\ UNCHANGED shVars

\* conn.readline(): the next line, the empty string at the end
ReadLine(lines, n) == IF n < Len(lines) THEN lines[n + 1] ELSE <<>>

\* the finally clause of curl
CurlFinallySkipped == handle' = handle

CurlFinally == handle' = "closed"

\* A pull on curl.  The first one opens the connection, which can fail; each
\* one reads a line, which can fail.
PullCurl ==
    /\ stage = "curl"
    /\ built = 1
    /\ consumer = "pulling"
    /\ gen \in {"created", "suspended"}
    /\ CanPull
    /\ \/ /\ gen = "created"
          /\ Raise("URLError")
          /\ UNCHANGED <<idx, handle>>
       \/ /\ Raise("socket.error")
          /\ CurlFinally
          /\ UNCHANGED idx
       \/ LET line == ReadLine(stdin, idx)
          IN  IF line # <<>>
              THEN /\ Yield(line)
                   /\ idx' = idx + 1
                   /\ handle' = "open"
              ELSE /\ Return
                   /\ CurlFinally
                   /\ UNCHANGED idx
    /\ UNCHANGED <<stage, args, stdin, count, data, di, built, consumer>>
    /\ UNCHANGED shVars

\* the consumer stops pulling and drops the stream
Abandon ==
    /\ built = 1
    /\ consumer = "pulling"
    /\ gen # "running"
    /\ consumer' = "abandoned"
    /\ UNCHANGED <<stage, args, stdin, idx, gen, count, data, di, out, results, built, handle>>
    /\ UNCHANGED shVars

\* close() on the generator of curl, as its deallocation calls it: a
\* suspended generator gets GeneratorExit at its yield, which runs finally
CloseCurl ==
    /\ stage = "curl"
    /\ consumer = "abandoned"
    /\ consumer' = "collected"
    /\ gen' = "finished"
    /\ IF gen = "suspended" THEN CurlFinally ELSE handle' = handle
    /\ UNCHANGED <<stage, args, stdin, idx, count, data, di, out, results, built>>
    /\ UNCHANGED shVars

InitSrc ==
    /\ stage \in {"cat", "curl"}
    /\ args = [path |-> "path"]
    /\ stdin \in SeqsUpTo(SourceLines, MaxLen)
    /\ idx = 0
    /\ gen = "created"
    /\ count = 0
    /\ data = <<>>
    /\ di = 0
    /\ out = <<>>
    /\ results = <<>>
    /\ built = 0
    /\ handle = "unopened"
    /\ consumer = "pulling"
    /\ NoProcess

NextSrc ==
    \/ CallCat
    \/ PullCat
    \/ CollectFile
    \/ CallCurl
    \/ PullCurl
    \/ PullFinished
    \/ Abandon
    \/ CloseCurl

SpecSrc == InitSrc /\ [][NextSrc]_vars

\* the last pull found the stream exhausted
Exhausted == Len(results) > 0 /\ results[Len(results)] = "StopIteration"

\* the last pull raised
Failed == Len(results) > 0 /\ IsException(results[Len(results)])

\* C6: the file handle of a cat stream is released on every way the stream
\* ends: once the consumer has exhausted it, and once a stream the consumer
\* abandoned has been torn down, no open handle remains.
C6_FileHandleReleased ==
    (stage = "cat" /\ (Exhausted \/ consumer = "collected")) => handle # "open"

\* C9: once curl has opened its connection, the connection is closed on
\* every exit path: when the lines are exhausted, when reading a line raises
\* (before the error reaches the consumer), and when the abandoned generator
\* is closed after any number of lines.  It is open only while the generator
\* is suspended at its yield.
C9_ConnectionClosed ==
    stage = "curl" =>
        /\ (Exhausted \/ Failed \/ consumer = "collected") => handle # "open"
        /\ handle = "open" => (gen = "suspended" /\ Len(out) >= 1)
        /\ (gen = "suspended") => handle = "open"
        /\ (gen = "finished" /\ Len(out) >= 1) => handle = "closed"

\* the consumer read one line of two and abandoned the stream, which was
\* then closed
C9_Witness ==
    /\ stage = "curl"
    /\ Len(stdin) = 2 /\ Len(out) = 1
    /\ consumer = "collected"
    /\ handle = "closed"

----------------------------------------------------------------------------
(* A chain: source | grep(pattern_src) | head(size) *)

Sources == {"cat", "curl", "sh", "iter"}

\* Calling a stage function without its upstream gives a deferred stage,
\* which is data: grep(pattern_src), then head(size)
CallDeferred ==
    /\ stage = "chain"
    /\ built \in {1, 3}
    /\ built' = built + 1
    /\ UNCHANGED <<stage, args, stdin, idx, gen, count, data, di, out, results, handle, consumer>>
    /\ UNCHANGED shVars

\* left | deferred calls the deferred stage's body with left as its upstream;
\* the bodies of grep and head are generator functions
ChainOperator ==
    /\ stage = "chain"
    /\ built \in {2, 4}
    /\ built' = built + 1
    /\ UNCHANGED <<stage, args, stdin, idx, gen, count, data, di, out, results, handle, consumer>>
    /\ UNCHANGED shVars

\* the expression is built once both operators have been applied
ChainBuilt == stage = "chain" /\ built > 4

\* the source of the chain is called: cat(path) runs open(), the others
\* make a generator (curl, sh) or an iterator over a list (iter)
CallSource ==
    /\ stage = "chain"
    /\ CallBody
    /\ handle' = IF args.source = "cat" THEN "open" ELSE handle
    /\ UNCHANGED <<stage, args, stdin, idx, gen, count, data, di, out, results, consumer>>
    /\ UNCHANGED shVars

\* the source's resource after a pull that gave a line: the first pull of
\* curl opens the connection, the first pull of sh spawns the process
AfterLine(source, h) == IF source \in {"curl", "sh"} THEN "open" ELSE h

\* and after the pull that found the source exhausted: curl closes the
\* connection, sh waits for the process, cat leaves the file as it is
AfterEnd(source, h) == IF source \in {"curl", "sh"} THEN "closed" ELSE h

\* A pull on the chain: head resumes and pulls grep, which compiles its
\* pattern when it starts and pulls the source up to a line that matches.
PullChain ==
    /\ ChainBuilt
    /\ consumer = "pulling"
    /\ gen \in {"created", "suspended"}
    /\ CanPull
    /\ LET c == IF gen = "created" THEN 0 ELSE count + 1
       IN  /\ count' = c
           /\ IF ~Compiles(args.pattern_src)
              THEN /\ Raise("re.error")
                   /\ UNCHANGED <<idx, handle>>
              ELSE LET r == GrepScan(Compile(args.pattern_src), stdin, idx)
                   IN  /\ idx' = r.idx
                       /\ IF r.res = "item"
                          THEN /\ handle' = AfterLine(args.source, handle)
                               /\ IF HeadStops(args.size, c)
                                  THEN Return
                                  ELSE Yield(stdin[r.idx])
                          ELSE /\ handle' = AfterEnd(args.source, handle)
                               /\ Return
    /\ UNCHANGED <<stage, args, stdin, data, di, built, consumer>>
    /\ UNCHANGED shVars

InitChain ==
    /\ stage = "chain"
    /\ args \in [source : Sources, pattern_src : Patterns, size : Sizes]
    /\ stdin \in SeqsUpTo(SourceLines, MaxLen)
    /\ idx = 0
    /\ gen = "created"
    /\ count = 0
    /\ data = <<>>
    /\ di = 0
    /\ out = <<>>
    /\ results = <<>>
    /\ built = 0
    /\ handle = "unopened"
    /\ consumer = "pulling"
    /\ NoProcess

NextChain ==
    \/ CallSource
    \/ CallDeferred
    \/ ChainOperator
    \/ PullChain
    \/ PullFinished

SpecChain == InitChain /\ [][NextChain]_vars

\* C1: building source | grep(p) | head(k) produces no item and has no side
\* effect before the consumer's first pull: no file, connection or process
\* is opened and no upstream item is pulled.
C1_NothingBeforeFirstPull ==
    (stage = "chain" /\ results = <<>>) =>
        /\ handle = "unopened"
        /\ idx = 0
        /\ out = <<>>

----------------------------------------------------------------------------
(* sh: a stage that runs a process *)

ShLines == { <<"a">>, <<"b">> }

\* in the upstream of sh: the pull at this place raises instead of giving an item
Raises == <<"<raise>">>

\* The commands of the model.  copy writes each line it reads and exits at
\* the end of its input; drain reads its input to the end, then writes the
\* lines and exits; emit reads nothing, writes its lines and exits.  A command
\* that does not read its input is run with no upstream (command=None form).
FilterCommands == [kind : {"copy", "drain"}, rc : 0 .. 1, lines : { <<>> }]

SourceCommands == [kind : {"emit"}, rc : 0 .. 1, lines : SeqsUpTo(ShLines, MaxShLen)]

\* if check_success and result != 0
CommandFailedWhateverFlag(check_success, result) == result # 0

CommandFailed(check_success, result) == check_success /\ result # 0

\* next() on the generator: the first one runs Popen and enters the try
\* block, a later one resumes after the yield
ShPull ==
    /\ stage = "sh"
    /\ consumer = "pulling"
    /\ gen \in {"created", "suspended"}
    /\ CanPull
    /\ gen' = "running"
    /\ IF gen = "created"
       THEN /\ pc' = "write"
            /\ child' = IF args.command.kind = "emit" THEN "flushing" ELSE "running"
            /\ held' = args.command.lines
       ELSE /\ pc' = "read"
            /\ UNCHANGED <<child, held>>
    /\ UNCHANGED <<stage, args, stdin, idx, count, data, di, out, results, srcVars>>
    /\ UNCHANGED <<inPipe, outPipe, inClosed, produced, pending>>

\* for line in stdin: pipe.stdin.write(line).  The write needs room in the
\* pipe; an upstream that raises sends control to finally.
ShWrite ==
    /\ stage = "sh"
    /\ gen = "running"
    /\ pc = "write"
    /\ idx < Len(stdin)
    /\ IF stdin[idx + 1] = Raises
       THEN /\ pending' = [type |-> "UpstreamError"]
            /\ pc' = "wait"
            /\ inPipe' = inPipe
       ELSE /\ Len(inPipe) < PipeCap
            /\ inPipe' = Append(inPipe, stdin[idx + 1])
            /\ UNCHANGED <<pending, pc>>
    /\ idx' = idx + 1
    /\ UNCHANGED <<stage, args, stdin, gen, count, data, di, out, results, srcVars>>
    /\ UNCHANGED <<child, outPipe, inClosed, held, produced>>

\* pipe.stdin.close(), once the upstream is exhausted
ShCloseStdin ==
    /\ stage = "sh"
    /\ gen = "running"
    /\ pc = "write"
    /\ idx = Len(stdin)
    /\ inClosed' = TRUE
    /\ pc' = "read"
    /\ UNCHANGED <<stage, args, stdin, idx, gen, count, data, di, out, results, srcVars>>
    /\ UNCHANGED <<child, inPipe, outPipe, held, produced, pending>>

\* the process has closed its output
OutputEnded == child \in {"exited", "reaped"}

\* for line in pipe.stdout: yield line.  The read waits for a line or for
\* the end of the output; the end sends control to finally.
ShRead ==
    /\ stage = "sh"
    /\ gen = "running"
    /\ pc = "read"
    /\ \/ /\ outPipe # <<>>
          /\ outPipe' = Tail(outPipe)
          /\ Yield(Head(outPipe))
          /\ pc' = "none"
       \/ /\ outPipe = <<>>
          /\ OutputEnded
          /\ pc' = "wait"
          /\ UNCHANGED <<outPipe, gen, out, results>>
    /\ UNCHANGED <<stage, args, stdin, idx, count, data, di, srcVars>>
    /\ UNCHANGED <<child, inPipe, inClosed, held, produced, pending>>

\* finally: result = pipe.wait(), which returns once the process has exited;
\* then CalledProcessError if check_success and result != 0, else the
\* exception in flight goes on (or the generator returns).  Run by close(),
\* the exception goes to the caller of close() and no pull sees it.
ShWait ==
    /\ stage = "sh"
    /\ gen = "running"
    /\ pc = "wait"
    /\ child = "exited"
    /\ child' = "reaped"
    /\ pc' = "none"
    /\ gen' = "finished"
    /\ out' = out
    /\ LET result == args.command.rc
           failed == CommandFailed(args.check_success, result)
           exc == IF failed THEN "CalledProcessError" ELSE pending.type
       IN  /\ pending' = IF failed
                         THEN [type |-> "CalledProcessError",
                               returncode |-> result, cmd |-> args.command]
                         ELSE pending
           /\ IF consumer = "abandoned"
              THEN /\ results' = results
                   /\ consumer' = "collected"
              ELSE /\ results' = Append(results, IF exc = "none" THEN "StopIteration" ELSE exc)
                   /\ consumer' = consumer
    /\ UNCHANGED <<stage, args, stdin, idx, count, data, di, built, handle>>
    /\ UNCHANGED <<inPipe, outPipe, inClosed, held, produced>>

\* close() on the generator, as its deallocation calls it: a suspended
\* generator gets GeneratorExit at its yield, and finally runs
ShClose ==
    /\ stage = "sh"
    /\ consumer = "abandoned"
    /\ gen \in {"created", "suspended", "finished"}
    /\ IF gen = "suspended"
       THEN /\ gen' = "running"
            /\ pc' = "wait"
            /\ pending' = [type |-> "GeneratorExit"]
            /\ consumer' = consumer
       ELSE /\ gen' = "finished"
            /\ consumer' = "collected"
            /\ UNCHANGED <<pc, pending>>
    /\ UNCHANGED <<stage, args, stdin, idx, count, data, di, out, results, built, handle>>
    /\ UNCHANGED <<child, inPipe, outPipe, inClosed, held, produced>>

\* The process reads a line of its input.
ChildRead ==
    /\ stage = "sh"
    /\ child = "running"
    /\ inPipe # <<>>
    /\ args.command.kind = "copy" => held = <<>>
    /\ held' = Append(held, Head(inPipe))
    /\ inPipe' = Tail(inPipe)
    /\ UNCHANGED <<stage, args, stdin, idx, gen, count, data, di, out, results, srcVars>>
    /\ UNCHANGED <<pc, child, outPipe, inClosed, produced, pending>>

\* The process finds the end of its input: the pipe is empty and closed.
ChildEOF ==
    /\ stage = "sh"
    /\ child = "running"
    /\ inPipe = <<>>
    /\ inClosed
    /\ child' = "flushing"
    /\ UNCHANGED <<stage, args, stdin, idx, gen, count, data, di, out, results, srcVars>>
    /\ UNCHANGED <<pc, inPipe, outPipe, inClosed, held, produced, pending>>

\* The process writes a line to its output, which needs room in the pipe.
ChildWrite ==
    /\ stage = "sh"
    /\ \/ child = "flushing"
       \/ child = "running" /\ args.command.kind = "copy"
    /\ held # <<>>
    /\ Len(outPipe) < PipeCap
    /\ outPipe' = Append(outPipe, Head(held))
    /\ produced' = Append(produced, Head(held))
    /\ held' = Tail(held)
    /\ UNCHANGED <<stage, args, stdin, idx, gen, count, data, di, out, results, srcVars>>
    /\ UNCHANGED <<pc, child, inPipe, inClosed, pending>>

\* The process exits once it has written everything.
ChildExit ==
    /\ stage = "sh"
    /\ child = "flushing"
    /\ held = <<>>
    /\ child' = "exited"
    /\ UNCHANGED <<stage, args, stdin, idx, gen, count, data, di, out, results, srcVars>>
    /\ UNCHANGED <<pc, inPipe, outPipe, inClosed, held, produced, pending>>

ChildNext == ChildRead \/ ChildEOF \/ ChildWrite \/ ChildExit

InitSh ==
    /\ stage = "sh"
    /\ \/ /\ stdin = <<>>
          /\ args \in [command : SourceCommands, check_success : BOOLEAN]
       \/ /\ stdin \in SeqsUpTo(ShLines \cup {Raises}, MaxShLen)
          /\ args \in [command : FilterCommands, check_success : BOOLEAN]
    /\ idx = 0
    /\ gen = "created"
    /\ count = 0
    /\ data = <<>>
    /\ di = 0
    /\ out = <<>>
    /\ results = <<>>
    /\ built = 1
    /\ handle = "unopened"
    /\ consumer = "pulling"
    /\ NoProcess

NextSh ==
    \/ ShPull
    \/ ShWrite
    \/ ShCloseStdin
    \/ ShRead
    \/ ShWait
    \/ PullFinished
    \/ Abandon
    \/ ShClose
    \/ ChildRead
    \/ ChildEOF
    \/ ChildWrite
    \/ ChildExit

SpecSh == InitSh /\ [][NextSh]_vars

\* the upstream of sh gives all its items without raising
UpstreamClean == \A i \in 1 .. Len(stdin) : stdin[i] # Raises

\* what the command writes in all: its own lines, or the lines it was given
WholeOutput == IF args.command.kind = "emit" THEN args.command.lines ELSE stdin

C8_CleanupCompletes ==
    (stage = "sh" /\ gen = "running" /\ pc = "wait") =>
        (child = "exited" \/ ENABLED ChildNext)

----------------------------------------------------------------------------
(* Properties of the generator stages *)

Min(a, b) == IF a < b THEN a ELSE b

Finished == gen = "finished"

\* C2: head(k) over a finite input outputs exactly the first min(k, len(input))
\* items of the input in their order (nothing for k = 0, the whole input when
\* no size is given); until it has finished, its output is a prefix of that.
C2_HeadFirstItems ==
    (stage = "head" /\ args.upstream = "list") =>
        LET n == IF args.size = None THEN Len(stdin) ELSE Min(args.size, Len(stdin))
        IN  /\ Len(out) <= n
            /\ out = SubSeq(stdin, 1, Len(out))
            /\ Finished => Len(out) = n

\* head(2) has finished over a three-item input after handing over two items
C2_Witness ==
    /\ stage = "head" /\ Finished /\ args.upstream = "list"
    /\ args.size = 2 /\ Len(stdin) = 3 /\ Len(out) = 2

\* C3: for 0 <= n <= L, tail(n) over an input of length L outputs exactly the
\* last n items in their order (nothing for n = 0), and tail() outputs the
\* whole input.
C3_TailLastItems ==
    (stage = "tail" /\ Finished) =>
        /\ args.size = None => out = stdin
        /\ (args.size # None /\ args.size <= Len(stdin)) =>
               out = SubSeq(stdin, Len(stdin) - args.size + 1, Len(stdin))
        /\ args.size = 0 => out = <<>>

\* tail(2) has finished over a three-item input
C3_Witness ==
    /\ stage = "tail" /\ Finished
    /\ args.size = 2 /\ Len(stdin) = 3 /\ Len(out) = 2

\* C4: for n > L, tail(n) over an input of length L outputs all L items in
\* their order.
C4_TailWholeInputWhenShort ==
    (stage = "tail" /\ Finished /\ args.size # None /\ args.size > Len(stdin)) =>
        out = stdin

\* C5: expand given zero patterns yields no item: its first pull reports the
\* end of the stream.
C5_ExpandNoPatternsNothing ==
    (stage = "expand" /\ args.filepatterns = <<>> /\ Len(results) >= 1) =>
        /\ results[1] = "StopIteration"
        /\ out = <<>>

\* pulls that raised an exception
Failures == { i \in 1 .. Len(results) : IsException(results[i]) }

\* C10 as claimed: once a pull on map or grep has raised, every later pull
\* on the same stream raises too.
C10_FailedPullsKeepFailing ==
    stage \in {"map", "grep"} =>
        \A i \in Failures : \A j \in (i + 1) .. Len(results) : IsException(results[j])

\* C10 as the code has it: the pull during which map's function or grep's
\* search (or its compile) raises delivers that exception; the generator is
\* then finished: it yields no further item and every later pull reports the
\* end of the stream.
C10_FailedStageEndsStream ==
    stage \in {"map", "grep"} =>
        /\ \A i \in Failures :
              /\ Finished
              /\ \A j \in (i + 1) .. Len(results) : results[j] = "StopIteration"
              /\ Len(out) = i - 1
        /\ (stage = "map" /\ Len(results) > 0 /\ results[Len(results)] = "item") =>
               FuncRaises(args.func, stdin[idx]) = "no"
        /\ (stage = "map" /\ idx > 0 /\ FuncRaises(args.func, stdin[idx]) # "no") =>
               results[Len(out) + 1] = FuncRaises(args.func, stdin[idx])
        /\ (stage = "grep" /\ idx > 0 /\ ~IsStr(stdin[idx])) =>
               results[Len(out) + 1] = "TypeError"

\* map has yielded an item, raised on the next one, and was pulled again
C10_Witness ==
    /\ stage = "map"
    /\ Len(results) >= 3
    /\ results[1] = "item"
    /\ IsException(results[2])
    /\ idx < Len(stdin)

----------------------------------------------------------------------------
(* Termination of a stream *)

\* pulls that reported the end of the stream
Ends == { i \in 1 .. Len(results) : results[i] = "StopIteration" }

\* C11: DONE is terminal for every stage: once a pull has reported the end
\* of the stream (upstream exhausted, or head at its size limit), every
\* further pull reports the end again: no item, no error.  head at its limit
\* ends as an ordinary end of stream: none of its pulls raises.
C11_DoneIsTerminal ==
    /\ \A i \in Ends :
          /\ Finished
          /\ Len(out) < i
          /\ \A j \in (i + 1) .. Len(results) : results[j] = "StopIteration"
    /\ stage \in {"head", "tail", "expand"} =>
          \A i \in 1 .. Len(results) : results[i] \in {"item", "StopIteration"}
    /\ (stage = "head" /\ args.size # None /\ Len(results) > args.size) =>
          results[args.size + 1] = "StopIteration"

\* head(1) reached its limit over a longer input and was pulled twice more
C11_Witness ==
    /\ stage = "head"
    /\ args.size = 1 /\ Len(stdin) = 3
    /\ results = <<"item", "StopIteration", "StopIteration">>

----------------------------------------------------------------------------
(* grep as a filter *)

\* line = before \o lit \o after for some before and after
OccursIn(lit, line) ==
    \E s \in 0 .. (Len(line) - Len(lit)) : SubSeq(line, s + 1, s + Len(lit)) = lit

StartsWith(lit, line) ==
    Len(lit) <= Len(line) /\ SubSeq(line, 1, Len(lit)) = lit

\* the str item matches the regular expression pattern_src
Matches(pattern_src, item) ==
    /\ IsStr(item)
    /\ IF Len(pattern_src) > 0 /\ pattern_src[1] = "^"
       THEN StartsWith(Tail(pattern_src), item)
       ELSE OccursIn(pattern_src, item)

\* C12: the output of grep holds exactly the input items that match the
\* pattern, each once, in the input's order: of the items pulled so far at
\* any moment, and of the whole input once the stream has ended.
C12_GrepFilters ==
    (stage = "grep" /\ Compiles(args.pattern_src)) =>
        /\ Failures = {} =>
              out = SelectSeq(SubSeq(stdin, 1, idx),
                              LAMBDA x : Matches(args.pattern_src, x))
        /\ \A k \in 1 .. Len(out) : Matches(args.pattern_src, out[k])
        /\ (Failures = {} /\ Ends # {}) => idx = Len(stdin)

\* grep("a") has passed "ca" and dropped "b" from a three-item input
C12_Witness ==
    /\ stage = "grep"
    /\ args.pattern_src = <<"a">>
    /\ stdin = << <<"c", "a">>, <<"b">>, <<"c", "a">> >>
    /\ Len(out) = 2
    /\ Ends # {}


----------------------------------------------------------------------------
(* sed: which items come out, and what is replaced *)

\* o is line with one occurrence of the pattern replaced by the expansion
\* of the replacement template
IsTransformOf(pattern_src, replacement, line, o) ==
    LET anchored == Len(pattern_src) > 0 /\ pattern_src[1] = "^"
        lit == IF anchored THEN Tail(pattern_src) ELSE pattern_src
    IN  \E s \in 0 .. (IF anchored THEN 0 ELSE Len(line) - Len(lit)) :
            /\ s + Len(lit) <= Len(line)
            /\ SubSeq(line, s + 1, s + Len(lit)) = lit
            /\ o = SubSeq(line, 1, s) \o Expand(replacement, lit)
                   \o SubSeq(line, s + Len(lit) + 1, Len(line))

MatchingSoFar == SelectSeq(SubSeq(stdin, 1, idx), LAMBDA x : Matches(args.pattern_src, x))

\* C13: a non-exclusive sed yields exactly one item per input item, in
\* order, transformed if the item matched and unchanged otherwise; an
\* exclusive sed yields one transformed item per matching item, in order,
\* and nothing for the others.
C13_SedOutputs ==
    (stage = "sed" /\ Compiles(args.pattern_src)) =>
        /\ (~args.exclusive /\ Failures = {}) => Len(out) = idx
        /\ ~args.exclusive =>
              \A k \in 1 .. Len(out) :
                  IF Matches(args.pattern_src, stdin[k])
                  THEN IsTransformOf(args.pattern_src, args.replacement, stdin[k], out[k])
                  ELSE out[k] = stdin[k]
        /\ args.exclusive =>
              /\ Len(out) = Len(MatchingSoFar)
              /\ \A k \in 1 .. Len(out) :
                    IsTransformOf(args.pattern_src, args.replacement, MatchingSoFar[k], out[k])
        /\ (Failures = {} /\ Ends # {}) => idx = Len(stdin)

C13_Witness ==
    /\ stage = "sed"
    /\ args.exclusive
    /\ args.pattern_src = <<"^", "c">>
    /\ args.replacement = <<WholeMatch, "x">>
    /\ stdin = << <<"b">>, <<"c", "a">>, <<"a", "b", "a">> >>
    /\ out = << <<"c", "x", "a">> >>
    /\ Ends # {}

\* re.sub(pattern, replacement, line): every occurrence, left to right,
\* without overlap; an anchored pattern can only occur at the start
RECURSIVE SubAll(_, _, _)
SubAll(lit, replacement, line) ==
    IF Len(line) < Len(lit) \/ lit = <<>> THEN line
    ELSE IF SubSeq(line, 1, Len(lit)) = lit
         THEN Expand(replacement, lit)
              \o SubAll(lit, replacement, SubSeq(line, Len(lit) + 1, Len(line)))
    ELSE <<Head(line)>> \o SubAll(lit, replacement, Tail(line))

ReSub(pattern_src, replacement, line) ==
    IF Len(pattern_src) > 0 /\ pattern_src[1] = "^"
    THEN (IF StartsWith(Tail(pattern_src), line)
          THEN Expand(replacement, Tail(pattern_src))
               \o SubSeq(line, Len(pattern_src), Len(line))
          ELSE line)
    ELSE SubAll(pattern_src, replacement, line)

\* C14: sed applies re.sub to each line: every non-overlapping occurrence
\* of the pattern in a line is replaced, also in a line where the pattern
\* occurs more than once.
C14_SedIsReSub ==
    (stage = "sed" /\ Compiles(args.pattern_src) /\ ~args.exclusive) =>
        \A k \in 1 .. Len(out) : out[k] = ReSub(args.pattern_src, args.replacement, stdin[k])

----------------------------------------------------------------------------
(* end-of-line conversions *)

DocstringInput == << <<"d", "o", "s", CR, LF>>, <<"u", "n", "i", "x", LF>> >>

\* C15: over ["dos\r\n", "unix\n"], unix2dos yields ["dos\r\n", "unix\r\n"]
\* and dos2unix yields ["dos\n", "unix\n"]; applying either of them twice
\* gives the same as applying it once.
C15_EolConversions ==
    (stage \in {"unix2dos", "dos2unix"} /\ stdin = DocstringInput /\ Finished) =>
        /\ stage = "unix2dos" =>
              out = << <<"d", "o", "s", CR, LF>>, <<"u", "n", "i", "x", CR, LF>> >>
        /\ stage = "dos2unix" =>
              out = << <<"d", "o", "s", LF>>, <<"u", "n", "i", "x", LF>> >>

----------------------------------------------------------------------------
(* map with the identity *)

\* C16: a map with the identity function reproduces its input, item for
\* item and in order, and so does a chain of any number of such maps.
C16_IdentityMap ==
    (stage = "map" /\ args.func = "identity") =>
        /\ out = SubSeq(stdin, 1, idx)
        /\ Failures = {}
        /\ Ends # {} => out = stdin

C16_Witness ==
    /\ stage = "map"
    /\ args.func = "identity"
    /\ args.depth = 2
    /\ stdin = << <<"c", "a">>, NoneItem, <<"b">> >>
    /\ out = stdin
    /\ Ends # {}

----------------------------------------------------------------------------
(* head and its upstream *)

\* C17: head(k) never takes more than k + 1 items from its upstream and
\* takes one only when its consumer pulls; once it has yielded k items the
\* next pull ends the stream, also over an upstream that never ends.
C17_HeadBoundedPulls ==
    (stage = "head" /\ args.size # None) =>
        /\ idx <= args.size + 1
        /\ idx <= Len(results)
        /\ gen = "created" => idx = 0
        /\ Len(out) <= args.size
        /\ (Len(out) = args.size /\ Len(results) > args.size) => Finished
        /\ Len(results) > args.size => results[args.size + 1] = "StopIteration"

C17_Witness ==
    /\ stage = "head"
    /\ args.upstream = "cycle"
    /\ args.size = 2
    /\ Len(stdin) = 1
    /\ idx = 3
    /\ Len(out) = 2
    /\ Finished



----------------------------------------------------------------------------
(* sh and a process that copies its input *)

\* C18: over a finite upstream, with a process that copies its input to
\* its output and pipes of bounded capacity, a pull on sh is never stuck:
\* while the stage runs for a consumer that keeps pulling, the stage or the
\* process can take a step, so every line is delivered and sh finishes.
C18_ShNeverBlocked ==
    (/\ stage = "sh"
     /\ args.command.kind = "copy"
     /\ UpstreamClean
     /\ consumer = "pulling"
     /\ gen = "running") =>
        ENABLED (ShWrite \/ ShCloseStdin \/ ShRead \/ ShWait \/ ChildNext)

====
